---- MODULE Spec2Model ----
(***************************************************************************)
(* Model of the port scanner in src/src/main.rs.                           *)
(*                                                                         *)
(* main: print_header; show_network_info().await?; perform_scan().await;   *)
(* display_results; wait for 'q'.  A step runs from one await to the next. *)
(* The catalog, the outcome of the address lookups and the outcome of     *)
(* every bind / connect are inputs chosen by the environment.  Option      *)
(* values are sequences: <<>> is None, <<v>> is Some(v).  A String is a    *)
(* sequence of one-character strings.                                      *)
(***************************************************************************)
EXTENDS Integers, Sequences, FiniteSets, TLC

(* ---- bounds ---- *)
MaxLen == 3
MaxCalls == 3

(* ---- the catalog (get_common_ports rows: PortInfo::new(port, service, category)) ---- *)
PortInfo(port, service, category) ==
  [port |-> port, service |-> service, category |-> category]

\* four rows of get_common_ports, in the order the function lists them: two
\* port numbers that appear under two categories each are among them
common_ports ==
  << PortInfo(80, "HTTP", "Web"),
     PortInfo(8080, "HTTP-ALT", "Web"),
     PortInfo(8080, "Proxy", "Other"),
     PortInfo(8443, "Proxy-SSL", "Other") >>

\* the selections of at most n of these rows, kept in the order of the function
\* (so the rows of a catalog are pairwise distinct, as in get_common_ports)
SubCatalogs(n) ==
  { [k \in 1..Len(pick) |-> common_ports[pick[k]]] :
      pick \in { q \in UNION { [1..m -> 1..Len(common_ports)] : m \in 0..n } :
                   \A x, y \in 1..Len(q) : x < y => q[x] < q[y] } }

Catalogs == SubCatalogs(MaxLen)

(* ---- inputs of show_network_info ---- *)
LocalOutcomes == { <<>>, << <<192, 168, 1, 10>> >> }

Bodies ==
  { <<"1", ".", "2", ".", "3", ".", "4">>,
    <<":", ":", "1">>,
    <<"e", "r", "r">> }

GetOutcomes == {"ok", "err"}

TextOutcomes ==
  { [kind |-> "text_err", body |-> <<>>] } \cup { [kind |-> "ok", body |-> b] : b \in Bodies }

(* ---- ip.parse::<IpAddr>(): an IPv4 dotted quad, else an IPv6 literal.  ---- *)
(* ---- A V4 address is its 4 octets, a V6 address its 8 16-bit groups.   ---- *)
Digits == <<"0", "1", "2", "3", "4", "5", "6", "7", "8", "9">>

HexLower == Digits \o <<"a", "b", "c", "d", "e", "f">>

HexUpper == Digits \o <<"A", "B", "C", "D", "E", "F">>

IsDigit(c) == \E d \in 1..10 : Digits[d] = c

DigitVal(c) == (CHOOSE d \in 1..10 : Digits[d] = c) - 1

IsHex(c) == \E d \in 1..16 : HexLower[d] = c \/ HexUpper[d] = c

HexVal(c) == (CHOOSE d \in 1..16 : HexLower[d] = c \/ HexUpper[d] = c) - 1

RECURSIVE Split(_, _, _, _)
Split(s, sep, cur, acc) ==
  IF s = <<>> THEN Append(acc, cur)
  ELSE IF Head(s) = sep THEN Split(Tail(s), sep, <<>>, Append(acc, cur))
  ELSE Split(Tail(s), sep, Append(cur, Head(s)), acc)

RECURSIVE DecVal(_, _)
DecVal(part, acc) ==
  IF part = <<>> THEN acc ELSE DecVal(Tail(part), acc * 10 + DigitVal(Head(part)))

RECURSIVE HexNum(_, _)
HexNum(part, acc) ==
  IF part = <<>> THEN acc ELSE HexNum(Tail(part), acc * 16 + HexVal(Head(part)))

OctetOk(part) ==
  /\ Len(part) \in 1..3
  /\ \A k \in 1..Len(part) : IsDigit(part[k])
  /\ (Len(part) > 1 => part[1] # "0")
  /\ DecVal(part, 0) <= 255

parse_Ipv4Addr(s) ==
  LET parts == Split(s, ".", <<>>, <<>>) IN
  IF Len(parts) = 4 /\ \A k \in 1..4 : OctetOk(parts[k])
  THEN << [k \in 1..4 |-> DecVal(parts[k], 0)] >>
  ELSE <<>>

HexGroupOk(part) ==
  /\ Len(part) \in 1..4
  /\ \A k \in 1..Len(part) : IsHex(part[k])

\* the groups of one side of an IPv6 literal: hex groups separated by ":",
\* the last of which may be an embedded dotted quad worth two groups
Ipv6Groups(sec, allowV4) ==
  IF sec = <<>> THEN [ok |-> TRUE, groups |-> <<>>]
  ELSE
    LET parts == Split(sec, ":", <<>>, <<>>)
        n == Len(parts)
        v4 == parse_Ipv4Addr(parts[n])
        front == [k \in 1..(n - 1) |-> HexNum(parts[k], 0)]
    IN
    IF \E k \in 1..(n - 1) : ~HexGroupOk(parts[k]) THEN [ok |-> FALSE, groups |-> <<>>]
    ELSE IF HexGroupOk(parts[n])
    THEN [ok |-> TRUE, groups |-> Append(front, HexNum(parts[n], 0))]
    ELSE IF allowV4 /\ v4 # <<>>
    THEN [ok |-> TRUE,
          groups |-> front \o <<v4[1][1] * 256 + v4[1][2], v4[1][3] * 256 + v4[1][4]>>]
    ELSE [ok |-> FALSE, groups |-> <<>>]

DoubleColonAt(s) ==
  IF \E k \in 1..(Len(s) - 1) : s[k] = ":" /\ s[k + 1] = ":"
  THEN CHOOSE k \in 1..(Len(s) - 1) :
         /\ s[k] = ":" /\ s[k + 1] = ":"
         /\ \A j \in 1..(k - 1) : ~(s[j] = ":" /\ s[j + 1] = ":")
  ELSE 0

parse_Ipv6Addr(s) ==
  LET k == DoubleColonAt(s) IN
  IF k = 0
  THEN LET g == Ipv6Groups(s, TRUE) IN
       IF g.ok /\ Len(g.groups) = 8 THEN <<g.groups>> ELSE <<>>
  ELSE LET h == Ipv6Groups(SubSeq(s, 1, k - 1), FALSE)
           t == Ipv6Groups(SubSeq(s, k + 2, Len(s)), TRUE)
       IN
       IF h.ok /\ t.ok /\ Len(h.groups) + Len(t.groups) <= 7
       THEN << h.groups \o [z \in 1..(8 - Len(h.groups) - Len(t.groups)) |-> 0] \o t.groups >>
       ELSE <<>>

parse_IpAddr(s) ==
  IF parse_Ipv4Addr(s) # <<>> THEN parse_Ipv4Addr(s) ELSE parse_Ipv6Addr(s)

WILDCARD == <<0, 0, 0, 0>>

(* ---- EXTERNAL_IP.set(ip): tokio OnceCell ---- *)
OnceCell_set_overwrite(cell, v) == [cell |-> <<v>>, ok |-> TRUE]

OnceCell_set(cell, v) ==
  IF cell = <<>> THEN [cell |-> <<v>>, ok |-> TRUE] ELSE [cell |-> cell, ok |-> FALSE]

(* ---- test_inbound_port: the address handed to TcpListener::bind ---- *)
bind_address_wildcard(cell) == WILDCARD

bind_address(cell) ==
  IF cell # <<>> /\ parse_IpAddr(cell[1]) # <<>> THEN parse_IpAddr(cell[1])[1] ELSE WILDCARD

BindOutcomes == {"ok", "in_use", "denied", "invalid"}

bind_is_ok(b) == b = "ok"

(* ---- test_outbound_port ---- *)
SocketOutcomes == {"ok", "err"}

ConnectFates == {"connects", "refused", "unreachable", "hangs"}

\* timeout(Duration::from_secs(1), socket.connect(addr)).await: the connect
\* result when it arrives within the second, Elapsed otherwise.
timeout_never_fires(fate) ==
  IF fate = "hangs" THEN {} ELSE {IF fate = "connects" THEN "Ok(Ok)" ELSE "Ok(Err)"}

timeout(fate) ==
  IF fate = "hangs" THEN {"Elapsed"}
  ELSE {IF fate = "connects" THEN "Ok(Ok)" ELSE "Ok(Err)", "Elapsed"}

\* match arm Ok(Ok(_)) => true, _ => false
outbound_of_any_ok(r) == r \in {"Ok(Ok)", "Ok(Err)"}

outbound_of(r) == r = "Ok(Ok)"

(* ---- HashMap<PortInfo, ScanResult> keyed by the derived Hash/Eq of PortInfo ---- *)
key_eq_port(a, b) == a.port = b.port

key_eq(a, b) == a = b

insert(m, k, v) ==
  IF \E x \in DOMAIN m : key_eq(x, k)
  THEN [x \in DOMAIN m |-> IF key_eq(x, k) THEN v ELSE m[x]]
  ELSE [x \in DOMAIN m \cup {k} |-> IF x = k THEN v ELSE m[x]]

ScanResult(inb, outb) == [inbound |-> inb, outbound |-> outb]

(* ---- display_results ---- *)
Perms(S) ==
  { s \in [1..Cardinality(S) -> S] : \A a, b \in 1..Cardinality(S) : a # b => s[a] # s[b] }

Categories(m) == { p.category : p \in DOMAIN m }

in_category_any(p, category) == TRUE

in_category(p, category) == p.category = category

status_text(r) ==
  IF r.inbound /\ r.outbound THEN "both"
  ELSE IF r.inbound THEN "receive_only"
  ELSE IF r.outbound THEN "send_only"
  ELSE "unavailable"

HeaderLine(c) ==
  [kind |-> "header", category |-> c, port |-> 0, service |-> "", status |-> ""]

EntryLine(p, r) ==
  [kind |-> "entry", category |-> "", port |-> p.port, service |-> p.service,
   status |-> status_text(r)]

EntryLines(c, keyOrder, m) ==
  LET sel == SelectSeq(keyOrder, LAMBDA p : in_category(p, c)) IN
  [k \in 1..Len(sel) |-> EntryLine(sel[k], m[sel[k]])]

RECURSIVE Render(_, _, _)
Render(catOrder, keyOrder, m) ==
  IF catOrder = <<>> THEN <<>>
  ELSE <<HeaderLine(Head(catOrder))>> \o EntryLines(Head(catOrder), keyOrder, m)
       \o Render(Tail(catOrder), keyOrder, m)

(* ---- pb.inc(1) ---- *)
pb_inc_skip(p) == p

pb_inc(p) == p + 1

(* ---- lines printed by show_network_info ---- *)
Line(msg, text) == [msg |-> msg, text |-> text]

(* ---- main ---- *)
main_order_scan_first == <<"scan", "resolve", "display", "wait">>

main_order == <<"resolve", "scan", "display", "wait">>

NextStage(s) ==
  LET k == CHOOSE j \in 1..Len(main_order) : main_order[j] = s IN
  IF k < Len(main_order) THEN main_order[k + 1] ELSE "exit"

VARIABLES
  pc,            \* position of main
  catalog,       \* the ports vector of perform_scan
  localIp,       \* result of local_ip_address::local_ip() (printed only)
  EXTERNAL_IP,   \* the static OnceCell<String>
  console,       \* lines printed by show_network_info
  calls,         \* number of show_network_info calls made
  tasks,         \* where each show_network_info call is: "get", "text", "Ok", "Err"
  resolveResult, \* what the last show_network_info call returned
  mainResult,    \* what main returned
  i,             \* index of the catalog row the for loop is at
  inbound,       \* local of scan_port
  results,       \* the HashMap of perform_scan
  pos,           \* position of the progress bar
  output,        \* lines printed by display_results
  connFate,      \* what the network does with the pending connect
  probed,        \* history: rows handed to scan_port
  scanned,       \* history: rows whose scan_port returned, with what it returned
  lastBind,      \* history: the bind of the current row
  lastConn,      \* history: how the last outbound test ended
  attempts,      \* history: connects started for the current row
  seen           \* history: values EXTERNAL_IP.get() returned

netVars == <<localIp, EXTERNAL_IP, console, calls, tasks, resolveResult>>
scanVars == <<i, inbound, results, pos, connFate, probed, scanned, lastBind, lastConn,
              attempts, seen>>
vars == <<pc, catalog, mainResult, output, netVars, scanVars>>

InitCommon ==
  /\ localIp = <<>>
  /\ EXTERNAL_IP = <<>>
  /\ console = <<>>
  /\ calls = 0
  /\ tasks = <<>>
  /\ resolveResult = <<>>
  /\ mainResult = "running"
  /\ i = 1
  /\ inbound = FALSE
  /\ results = [x \in {} |-> ScanResult(FALSE, FALSE)]
  /\ pos = 0
  /\ output = <<>>
  /\ connFate = "none"
  /\ probed = <<>>
  /\ scanned = <<>>
  /\ lastBind = <<>>
  /\ lastConn = "none"
  /\ attempts = 0
  /\ seen = {}

Init ==
  /\ pc = main_order[1]
  /\ catalog \in Catalogs
  /\ InitCommon

(* show_network_info up to its first await, lines 127-137: the local lookup, *)
(* its line, the label, and the request is sent                               *)
show_start(local) ==
  /\ localIp' = local
  /\ calls' = calls + 1
  /\ tasks' = Append(tasks, "get")
  /\ console' = console \o
       <<IF local # <<>> THEN Line("local_ip", <<>>) ELSE Line("no_local_ip", <<>>),
         Line("ext_label", <<>>)>>
  /\ UNCHANGED <<EXTERNAL_IP, resolveResult>>

(* reqwest::get(..).await? completes, line 137: an error returns from the call *)
show_get_done(t, g) ==
  /\ tasks[t] = "get"
  /\ IF g = "err"
     THEN tasks' = [tasks EXCEPT ![t] = "Err"] /\ resolveResult' = <<"Err">>
     ELSE tasks' = [tasks EXCEPT ![t] = "text"] /\ UNCHANGED resolveResult
  /\ UNCHANGED <<localIp, calls, console, EXTERNAL_IP>>

(* .text().await completes, lines 137-146: print, EXTERNAL_IP.set, Ok(()) *)
show_text_done(t, r) ==
  /\ tasks[t] = "text"
  /\ tasks' = [tasks EXCEPT ![t] = "Ok"]
  /\ resolveResult' = <<"Ok">>
  /\ IF r.kind = "text_err"
     THEN /\ console' = Append(console, Line("ext_unavailable", <<>>))
          /\ UNCHANGED EXTERNAL_IP
     ELSE LET c == OnceCell_set(EXTERNAL_IP, r.body) IN
          /\ EXTERNAL_IP' = c.cell
          /\ console' = console \o <<Line("ext_ip", r.body)>>
                        \o (IF c.ok THEN <<>> ELSE <<Line("warn_already_set", <<>>)>>)
  /\ UNCHANGED <<localIp, calls>>

(* main line 103, show_network_info().await?: main is suspended with the call *)
ShowNetworkInfoStart ==
  /\ pc = "resolve"
  /\ \E local \in LocalOutcomes : show_start(local)
  /\ pc' = "resolve_get"
  /\ UNCHANGED <<catalog, mainResult, output, scanVars>>

ShowNetworkInfoGet ==
  /\ pc = "resolve_get"
  /\ \E g \in GetOutcomes :
       /\ show_get_done(Len(tasks), g)
       /\ IF g = "err"
          THEN pc' = "exit" /\ mainResult' = "Err"
          ELSE pc' = "resolve_text" /\ UNCHANGED mainResult
  /\ UNCHANGED <<catalog, output, scanVars>>

ShowNetworkInfoText ==
  /\ pc = "resolve_text"
  /\ \E r \in TextOutcomes : show_text_done(Len(tasks), r)
  /\ pc' = NextStage("resolve")
  /\ UNCHANGED <<catalog, mainResult, output, scanVars>>

(* scan_port line 182 with test_inbound_port, lines 192-201 *)
TestInbound ==
  /\ pc = "scan"
  /\ i <= Len(catalog)
  /\ \E b \in BindOutcomes :
       /\ inbound' = bind_is_ok(b)
       /\ lastBind' = << [addr |-> bind_address(EXTERNAL_IP), port |-> catalog[i].port,
                          outcome |-> b] >>
  /\ seen' = seen \cup {EXTERNAL_IP}
  /\ probed' = Append(probed, i)
  /\ attempts' = 0
  /\ lastConn' = "none"
  /\ pc' = "outbound"
  /\ UNCHANGED <<catalog, mainResult, output, netVars, i, results, pos, connFate, scanned>>

(* scan_port returns; results.insert(port_info, scan_result); pb.inc(1) *)
FinishRow(outb) ==
  /\ results' = insert(results, catalog[i], ScanResult(inbound, outb))
  /\ pos' = pb_inc(pos)
  /\ scanned' = Append(scanned, [row |-> i, result |-> ScanResult(inbound, outb)])
  /\ i' = i + 1
  /\ connFate' = "none"
  /\ lastBind' = <<>>
  /\ pc' = "scan"

(* test_outbound_port up to the await, lines 204-207 *)
TestOutbound ==
  /\ pc = "outbound"
  /\ \E s \in SocketOutcomes :
       IF s = "err"
       THEN /\ lastConn' = "socket_err"
            /\ FinishRow(FALSE)
            /\ UNCHANGED attempts
       ELSE /\ \E fate \in ConnectFates : connFate' = fate
            /\ attempts' = attempts + 1
            /\ pc' = "connecting"
            /\ UNCHANGED <<lastConn, results, pos, scanned, i, lastBind>>
  /\ UNCHANGED <<catalog, mainResult, output, netVars, inbound, probed, seen>>

(* the await of line 207 completes, lines 207-210 *)
ConnectDone ==
  /\ pc = "connecting"
  /\ \E r \in timeout(connFate) :
       /\ lastConn' = r
       /\ FinishRow(outbound_of(r))
  /\ UNCHANGED <<catalog, mainResult, output, netVars, inbound, probed, seen, attempts>>

(* the for loop is exhausted: pb.finish_with_message, return results *)
FinishScan ==
  /\ pc = "scan"
  /\ i > Len(catalog)
  /\ pc' = NextStage("scan")
  /\ lastConn' = "none"
  /\ UNCHANGED <<catalog, mainResult, output, netVars, i, inbound, results, pos, connFate,
                 probed, scanned, lastBind, attempts, seen>>

(* display_results, lines 216-240: HashSet and HashMap iteration orders are arbitrary *)
DisplayResults ==
  /\ pc = "display"
  /\ \E catOrder \in Perms(Categories(results)), keyOrder \in Perms(DOMAIN results) :
       output' = Render(catOrder, keyOrder, results)
  /\ pc' = NextStage("display")
  /\ UNCHANGED <<catalog, mainResult, netVars, scanVars>>

(* main lines 107-117: read lines until "q" *)
WaitExit ==
  /\ pc = "wait"
  /\ pc' = NextStage("wait")
  /\ mainResult' = "Ok"
  /\ UNCHANGED <<catalog, output, netVars, scanVars>>

Next ==
  \/ ShowNetworkInfoStart
  \/ ShowNetworkInfoGet
  \/ ShowNetworkInfoText
  \/ TestInbound
  \/ TestOutbound
  \/ ConnectDone
  \/ FinishScan
  \/ DisplayResults
  \/ WaitExit

Spec == Init /\ [][Next]_vars

(* ---- the same program on short catalogs, for termination of the scan:  ---- *)
(* ---- bind and socket creation are synchronous, and the runtime resumes ---- *)
(* ---- the task when the connect completes or the 1 s timer fires        ---- *)
MaxFairLen == 2

FairCatalogs == SubCatalogs(MaxFairLen)

FairInit ==
  /\ pc = main_order[1]
  /\ catalog \in FairCatalogs
  /\ InitCommon

ScanNext == TestInbound \/ TestOutbound \/ ConnectDone \/ FinishScan

FairSpec == FairInit /\ [][Next]_vars /\ WF_vars(ScanNext)

(* ---- repeated and overlapping resolution: show_network_info called up to ---- *)
(* ---- MaxCalls times, a new call possibly starting while others are awaiting ---- *)
InitCell ==
  /\ pc = "harness"
  /\ catalog = <<>>
  /\ InitCommon

CallStart ==
  /\ pc = "harness"
  /\ calls < MaxCalls
  /\ \E local \in LocalOutcomes : show_start(local)
  /\ UNCHANGED <<pc, catalog, mainResult, output, scanVars>>

CallGetDone ==
  /\ pc = "harness"
  /\ \E t \in 1..Len(tasks), g \in GetOutcomes : show_get_done(t, g)
  /\ UNCHANGED <<pc, catalog, mainResult, output, scanVars>>

CallTextDone ==
  /\ pc = "harness"
  /\ \E t \in 1..Len(tasks), r \in TextOutcomes : show_text_done(t, r)
  /\ UNCHANGED <<pc, catalog, mainResult, output, scanVars>>

NextCell == CallStart \/ CallGetDone \/ CallTextDone

SpecCell == InitCell /\ [][NextCell]_vars

(* ======================= properties ======================= *)
ScanDone == pc \in {"display", "wait"} \/ (pc = "exit" /\ mainResult = "Ok")

Displayed == pc = "wait" \/ (pc = "exit" /\ mainResult = "Ok")

Rows == { catalog[k] : k \in 1..Len(catalog) }

FirstIndex(p) ==
  CHOOSE k \in 1..Len(catalog) :
    catalog[k] = p /\ \A j \in 1..Len(catalog) : catalog[j] = p => j >= k

\* C1: when perform_scan finishes, the result set holds exactly len(C)
\* entries, one per catalog row (rows sharing a port number included): every
\* row was probed exactly once, in order, and each row's entry carries that
\* row's own outcome.
C1_OneEntryPerRow ==
  ScanDone =>
    /\ Cardinality(DOMAIN results) = Len(catalog)
    /\ probed = [k \in 1..Len(catalog) |-> k]
    /\ Len(scanned) = Len(catalog)
    /\ DOMAIN results = Rows
    /\ \A k \in 1..Len(catalog) :
         scanned[k].row = k /\ results[catalog[k]] = scanned[k].result

C1_Witness ==
  /\ ScanDone
  /\ catalog = <<PortInfo(80, "HTTP", "Web"), PortInfo(8080, "HTTP-ALT", "Web"),
                 PortInfo(8080, "Proxy", "Other")>>
  /\ Cardinality(DOMAIN results) = 3
  /\ results[catalog[2]] # results[catalog[3]]

\* C2 as stated: no outcome of the address lookups is fatal; the run always
\* completes a full scan pass over the whole catalog.
C2_NoFatalPath ==
  /\ resolveResult # <<"Err">>
  /\ mainResult # "Err"
  /\ (pc = "exit" => Len(scanned) = Len(catalog))

ExternalUsable == EXTERNAL_IP # <<>> /\ parse_IpAddr(EXTERNAL_IP[1]) # <<>>

\* C3 as stated: the inbound test binds to the external address when it is
\* set and parses, otherwise to the local address when resolved, otherwise to
\* the wildcard address.
C3_LocalAddressFallback ==
  lastBind # <<>> =>
    lastBind[1].addr =
      IF ExternalUsable THEN parse_IpAddr(EXTERNAL_IP[1])[1]
      ELSE IF localIp # <<>> THEN localIp[1]
      ELSE WILDCARD

\* C3 amended: the inbound test binds to the external address when it is set
\* and parses as an IP literal, and to the wildcard address 0.0.0.0 in every
\* other case, whether or not the local address was resolved.
C3_WildcardFallback ==
  lastBind # <<>> =>
    /\ lastBind[1].port = catalog[i].port
    /\ ExternalUsable => lastBind[1].addr = parse_IpAddr(EXTERNAL_IP[1])[1]
    /\ ~ExternalUsable => lastBind[1].addr = <<0, 0, 0, 0>>

C3_Witness ==
  /\ lastBind # <<>>
  /\ EXTERNAL_IP = << <<"e", "r", "r">> >>
  /\ localIp # <<>>
  /\ lastBind[1].addr = <<0, 0, 0, 0>>
  /\ lastBind[1].port = 8080

RECURSIVE CountMsg(_, _)
CountMsg(lines, msg) ==
  IF lines = <<>> THEN 0
  ELSE (IF Head(lines).msg = msg THEN 1 ELSE 0) + CountMsg(Tail(lines), msg)

FirstExtIp(lines) ==
  lines[CHOOSE k \in 1..Len(lines) :
          lines[k].msg = "ext_ip" /\ \A j \in 1..(k - 1) : lines[j].msg # "ext_ip"].text

\* C4: the external-address cell is set-once: it holds the first value handed
\* to it, every later set attempt leaves it unchanged and prints the warning,
\* and the call that made the attempt still returns Ok.
C4_SetOnce ==
  /\ [](/\ CountMsg(console, "ext_ip") = 0 => EXTERNAL_IP = <<>>
        /\ CountMsg(console, "ext_ip") > 0 =>
             /\ EXTERNAL_IP = <<FirstExtIp(console)>>
             /\ CountMsg(console, "warn_already_set") = CountMsg(console, "ext_ip") - 1)
  /\ [][/\ EXTERNAL_IP # <<>> => EXTERNAL_IP' = EXTERNAL_IP
        /\ CountMsg(console', "ext_ip") > CountMsg(console, "ext_ip") =>
             resolveResult' = <<"Ok">> /\ mainResult' = mainResult]_vars

C4_Witness ==
  /\ console = <<Line("local_ip", <<>>), Line("ext_label", <<>>),
                 Line("no_local_ip", <<>>), Line("ext_label", <<>>),
                 Line("ext_ip", <<"1", ".", "2", ".", "3", ".", "4">>),
                 Line("ext_ip", <<"e", "r", "r">>),
                 Line("warn_already_set", <<>>)>>
  /\ EXTERNAL_IP = << <<"1", ".", "2", ".", "3", ".", "4">> >>
  /\ tasks = <<"Ok", "Ok">>
  /\ resolveResult = <<"Ok">>

(* the group an output line is printed under: the nearest header above it *)
GroupOf(k) ==
  LET h == CHOOSE j \in 1..k :
             output[j].kind = "header" /\ \A l \in (j + 1)..k : output[l].kind # "header"
  IN output[h].category

EntryLinesOf(p) ==
  { k \in 1..Len(output) :
      output[k].kind = "entry" /\ output[k].port = p.port /\ output[k].service = p.service }

HeaderLinesOf(c) ==
  { k \in 1..Len(output) : output[k].kind = "header" /\ output[k].category = c }

\* C5: the grouped output is a partition of the result set: as many entry
\* lines as results, every result printed exactly once and under the header
\* of its own category, one header per category present, none for an absent one.
C5_GroupingIsPartition ==
  Displayed =>
    /\ Cardinality({k \in 1..Len(output) : output[k].kind = "entry"})
         = Cardinality(DOMAIN results)
    /\ \A p \in DOMAIN results :
         /\ Cardinality(EntryLinesOf(p)) = 1
         /\ \A k \in EntryLinesOf(p) :
              GroupOf(k) = p.category /\ output[k].status = status_text(results[p])
    /\ \A c \in {p.category : p \in DOMAIN results} : Cardinality(HeaderLinesOf(c)) = 1
    /\ \A k \in 1..Len(output) :
         output[k].kind = "header" => \E p \in DOMAIN results : p.category = output[k].category

C5_Witness ==
  /\ Displayed
  /\ DOMAIN results = { PortInfo(80, "HTTP", "Web"), PortInfo(8080, "HTTP-ALT", "Web"),
                        PortInfo(8080, "Proxy", "Other") }
  /\ Len(output) = 5
  /\ \E a, b \in 1..5 :
       /\ output[a].kind = "entry" /\ output[b].kind = "entry"
       /\ output[a].port = 8080 /\ output[b].port = 8080
       /\ GroupOf(a) = "Web" /\ GroupOf(b) = "Other"

RowOfLine(k) ==
  CHOOSE p \in DOMAIN results :
    p.port = output[k].port /\ p.service = output[k].service

\* C6 as stated: within each category the entries are emitted in catalog
\* order, whatever order the results were stored or iterated in.
C6_CatalogOrderWithinCategory ==
  Displayed =>
    \A a, b \in 1..Len(output) :
      (/\ a < b
       /\ output[a].kind = "entry" /\ output[b].kind = "entry"
       /\ GroupOf(a) = GroupOf(b))
      => FirstIndex(RowOfLine(a)) < FirstIndex(RowOfLine(b))

\* C7: the progress counter never decreases, moves by exactly one when a
\* row's probe completes, always equals the number of completed rows, and
\* equals the catalog length when the scan has finished.
C7_ProgressCounter ==
  /\ [](pos = Len(scanned) /\ (ScanDone => pos = Len(catalog)))
  /\ [][\/ (pos' = pos /\ Len(scanned') = Len(scanned))
        \/ (pos' = pos + 1 /\ Len(scanned') = Len(scanned) + 1)]_vars

C7_Witness ==
  /\ ScanDone
  /\ pos = 3
  /\ \E a, b \in 1..3 :
       /\ scanned[a].result = ScanResult(FALSE, FALSE)
       /\ scanned[b].result = ScanResult(TRUE, TRUE)

\* C8: every failure of the bind yields inbound = false and every failure of
\* the outbound test yields outbound = false; a boolean is true only when the
\* bind or connect succeeded; no probe failure ends the run, and the loop goes
\* on with the next row.
C8_FailuresCollapseToFalse ==
  /\ lastBind # <<>> => (inbound <=> lastBind[1].outcome = "ok")
  /\ lastConn # "none" =>
       /\ scanned[Len(scanned)].result.outbound <=> (lastConn = "Ok(Ok)")
       /\ scanned[Len(scanned)].result.inbound <=> inbound
       /\ results[catalog[Len(scanned)]] = scanned[Len(scanned)].result
       /\ pc = "scan" /\ i = Len(scanned) + 1
  /\ probed # <<>> => mainResult # "Err"

C8_Witness ==
  /\ pc = "scan"
  /\ lastConn = "Ok(Err)"
  /\ Len(scanned) = 1
  /\ scanned[1].result = ScanResult(FALSE, FALSE)
  /\ i <= Len(catalog)

Scanning == pc \in {"scan", "outbound", "connecting"}

\* C9: the outbound test starts at most one connect per row, a pending
\* connect always ends (by its result or by the timeout, which yields false),
\* and the scan as a whole terminates.
C9_OutboundTerminates ==
  /\ [](attempts <= 1)
  /\ [](lastConn = "Elapsed" => ~scanned[Len(scanned)].result.outbound)
  /\ (pc = "connecting") ~> (pc # "connecting")
  /\ Scanning ~> ~Scanning

C9_Witness ==
  /\ pc = "scan"
  /\ i > Len(catalog)
  /\ Len(catalog) = 2
  /\ attempts = 1
  /\ lastConn = "Elapsed"
  /\ ~scanned[2].result.outbound

\* C10: show_network_info has returned before the first inbound test reads
\* the external-address cell, and every inbound test of the run reads the
\* same value, the one the cell still holds.
C10_ContextFixedBeforeScan ==
  seen # {} =>
    /\ resolveResult = <<"Ok">>
    /\ seen = {EXTERNAL_IP}

C10_Witness ==
  /\ ScanDone
  /\ Len(probed) = 3
  /\ seen = {EXTERNAL_IP}
  /\ EXTERNAL_IP # <<>>
====
